---- MODULE Spec2Model ----
(***************************************************************************)
(* Parts Catalog Mapper: the Streamlit web app (app.py) and the Tkinter     *)
(* desktop app with its worker threads (parts_catalog_mapper_v2.py).       *)
(*                                                                         *)
(* A cell of a table is a text, written as a tuple of one-character        *)
(* strings (<<" ", "A">> is " A"), or the missing value NaN that the       *)
(* spreadsheet reader produces for a blank cell.  A table (DataFrame) is a *)
(* record [columns, rows]: the ordered column names and the ordered rows,  *)
(* each row a function from column name to cell.                           *)
(***************************************************************************)
EXTENDS Integers, Sequences, FiniteSets, TLC

VARIABLES df_source, df_catalog, df_mapped, mapping, out, event, workers

vars == <<df_source, df_catalog, df_mapped, mapping, out, event, workers>>

\* ------------------------------------------------------------------ bounds
MaxSrcRows == 2
MaxCatRows == 2
MaxWorkers == 2

\* ------------------------------------------------------------ cell values
NaN == <<"NaN">>
Digits == {"0", "1", "2", "3", "4", "5", "6", "7", "8", "9"}

DigitVal(ch) ==
    CASE ch = "0" -> 0 [] ch = "1" -> 1 [] ch = "2" -> 2 [] ch = "3" -> 3
      [] ch = "4" -> 4 [] ch = "5" -> 5 [] ch = "6" -> 6 [] ch = "7" -> 7
      [] ch = "8" -> 8 [] ch = "9" -> 9

\* Series.astype(str) on one cell: a text stays itself, NaN becomes "nan".
AsStr(c) == IF c = NaN THEN <<"n", "a", "n">> ELSE c

RECURSIVE LStrip(_)
LStrip(t) == IF t # <<>> /\ Head(t) = " " THEN LStrip(Tail(t)) ELSE t

RECURSIVE RStrip(_)
RStrip(t) ==
    IF t # <<>> /\ t[Len(t)] = " " THEN RStrip(SubSeq(t, 1, Len(t) - 1)) ELSE t

\* str.strip() on one cell.
Strip(t) == LStrip(RStrip(t))

\* normalize_itemcode: series.astype(str).str.strip(), cell by cell.
normalize_itemcode(series) == [i \in DOMAIN series |-> Strip(AsStr(series[i]))]

\* ------------------------------------------------------------ table tools
None == [columns |-> <<>>, rows |-> <<>>, isnone |-> TRUE]

DataFrame(cols, rws) == [columns |-> cols, rows |-> rws, isnone |-> FALSE]

Range(seq) == {seq[i] : i \in DOMAIN seq}

ColSet(df) == Range(df.columns)

Column(df, c) == [i \in DOMAIN df.rows |-> df.rows[i][c]]

\* Boolean indexing df[mask]: the positions whose flag is set, in order.
RECURSIVE Positions(_, _)
Positions(flags, i) ==
    IF i > Len(flags) THEN <<>>
    ELSE (IF flags[i] THEN <<i>> ELSE <<>>) \o Positions(flags, i + 1)

\* drop_duplicates(subset=[key], keep=...): positions of the rows kept, in order.
DropDuplicatesFirst(keys) ==
    Positions([i \in DOMAIN keys |-> \A j \in 1..(i - 1) : keys[j] # keys[i]], 1)

DropDuplicatesLast(keys) ==
    Positions([i \in DOMAIN keys |->
                 \A j \in (i + 1)..Len(keys) : keys[j] # keys[i]], 1)

\* ---------------------------------------------------------- program names
STANDARD_HEADERS ==
    <<"Supplier", "ItemCode", "Description", "PurchasePrice", "SalesPrice",
      "SV_ManufacturerId", "ListCategory", "MarinaLocationId", "AdditionDatetime">>

DROPDOWN_MAPPED_FIELDS ==
    {"Supplier", "ItemCode", "Description", "PurchasePrice", "SalesPrice",
     "SV_ManufacturerId", "ListCategory"}

NotMapped == "(not mapped)"

\* ------------------------------------------------------- build_df_mapped
NonBlankPositions(codes) ==
    Positions([i \in DOMAIN codes |-> Strip(AsStr(codes[i])) # <<>>], 1)

\* A dedupe that keeps the first occurrence of each ItemCode instead.
MappedDedupeFirst(codes) == DropDuplicatesFirst(codes)

\* df_mapped.drop_duplicates(subset=["ItemCode"], keep="last")
MappedDedupe(codes) == DropDuplicatesLast(codes)

build_df_mapped(src, map, marina_location_id, addition_dt) ==
    LET Cell(i, field) ==
            IF field = "MarinaLocationId" THEN marina_location_id
            ELSE IF field = "AdditionDatetime" THEN addition_dt
            ELSE IF map[field] = NotMapped THEN <<>>
            ELSE src.rows[i][map[field]]
        raw == [i \in DOMAIN src.rows |->
                  [f \in {STANDARD_HEADERS[k] : k \in DOMAIN STANDARD_HEADERS} |->
                      Cell(i, f)]]
        codes == normalize_itemcode([i \in DOMAIN raw |-> raw[i]["ItemCode"]])
        normed == [i \in DOMAIN raw |-> [raw[i] EXCEPT !["ItemCode"] = codes[i]]]
        nonblank == NonBlankPositions(codes)
        kept1 == [k \in DOMAIN nonblank |-> normed[nonblank[k]]]
        last == MappedDedupe([k \in DOMAIN kept1 |-> kept1[k]["ItemCode"]])
    IN DataFrame(STANDARD_HEADERS, [k \in DOMAIN last |-> kept1[last[k]]])

\* ----------------------------------------------------------------- to_num
\* A parsed price is <<n>>, or NoNumber for the NaN that pd.to_numeric gives.
\* The price texts of this model are made of digits, commas, blanks and
\* letters, so decimal parsing is the digit-string case of pd.to_numeric.
NoNumber == <<>>

RemoveCommas(t) == SelectSeq(t, LAMBDA ch : ch # ",")

RECURSIVE ParseDigits(_, _)
ParseDigits(t, acc) ==
    IF t = <<>> THEN <<acc>>
    ELSE IF Head(t) \notin Digits THEN NoNumber
    ELSE ParseDigits(Tail(t), acc * 10 + DigitVal(Head(t)))

\* A conversion that forgets to strip the thousands separators.
to_num_keep_commas(cell) ==
    LET s == Strip(AsStr(cell))
    IN IF s \in {<<>>, <<"n", "a", "n">>, <<"N", "o", "n", "e">>} THEN NoNumber
       ELSE ParseDigits(s, 0)

to_num(cell) ==
    LET s == Strip(RemoveCommas(AsStr(cell)))
    IN IF s \in {<<>>, <<"n", "a", "n">>, <<"N", "o", "n", "e">>} THEN NoNumber
       ELSE ParseDigits(s, 0)

\* Series.ne on one pair of parsed prices: NaN differs from everything.
Ne(a, b) == a = NoNumber \/ b = NoNumber \/ a # b

\* ------------------------------------------------ compare_and_build_exports
required_catalog_cols == <<"ItemCode", "PurchasePrice", "SalesPrice">>

NEW_ITEMS_COLUMNS ==
    <<"Id", "Supplier", "ItemCode", "Description", "PurchasePrice", "SalesPrice",
      "SV_ManufacturerId", "ListCategory", "RecordStatusId", "MarinaLocationId",
      "AdditionDatetime", "ItemMaster_Id", "AspNetUser_Id", "SupersededItemCode">>

Star == <<"*">>
NULL == <<"N", "U", "L", "L">>

\* A check that reports every required column once one is missing.
MissingColsAll(df) ==
    IF \E c \in Range(required_catalog_cols) : c \notin ColSet(df)
    THEN required_catalog_cols ELSE <<>>

\* missing = [c for c in required_catalog_cols if c not in df_catalog.columns]
MissingCols(df) == SelectSeq(required_catalog_cols, LAMBDA c : c \notin ColSet(df))

\* df.copy(): a new object that shares nothing with the caller's table.
NoCopy(df) == [frame |-> df, shares |-> TRUE]

CopyFrame(df) == [frame |-> df, shares |-> FALSE]

\* obj["ItemCode"] = normalize_itemcode(obj["ItemCode"]), written into obj.
WithNormalizedCodes(df) ==
    LET codes == normalize_itemcode(Column(df, "ItemCode"))
    IN DataFrame(df.columns,
                 [i \in DOMAIN df.rows |-> [df.rows[i] EXCEPT !["ItemCode"] = codes[i]]])

\* The caller's table after the callee wrote `written` into its working object.
CallerSees(obj, original, written) == IF obj.shares THEN written ELSE original

\* drop_duplicates(subset=["ItemCode"], keep="last").set_index("ItemCode"):
\* the rows kept, in order; each is found by its ItemCode.
Lookup(df) ==
    LET keep == DropDuplicatesLast(Column(df, "ItemCode"))
    IN [k \in DOMAIN keep |-> df.rows[keep[k]]]

Index(lookup) == [k \in DOMAIN lookup |-> lookup[k]["ItemCode"]]

Loc(lookup, code) == lookup[CHOOSE k \in DOMAIN lookup : lookup[k]["ItemCode"] = code]

\* catalog_lookup.index.intersection(mapped_lookup.index, sort=False)
BothCodes(catalog_lookup, mapped_lookup) ==
    SelectSeq(Index(catalog_lookup), LAMBDA c : c \in Range(Index(mapped_lookup)))

\* mapped_lookup.index.difference(catalog_lookup.index, sort=False)
NewCodes(catalog_lookup, mapped_lookup) ==
    SelectSeq(Index(mapped_lookup), LAMBDA c : c \notin Range(Index(catalog_lookup)))

\* needs_update = catalog_pp.ne(mapped_pp) | catalog_sp.ne(mapped_sp), for one code
NeedsUpdate(cat_row, map_row) ==
    \/ Ne(to_num(cat_row["PurchasePrice"]), to_num(map_row["PurchasePrice"]))
    \/ Ne(to_num(cat_row["SalesPrice"]), to_num(map_row["SalesPrice"]))

CodesToUpdate(catalog_lookup, mapped_lookup) ==
    SelectSeq(BothCodes(catalog_lookup, mapped_lookup),
              LAMBDA c : NeedsUpdate(Loc(catalog_lookup, c), Loc(mapped_lookup, c)))

\* An update that forgets the SalesPrice assignment.
UpdatePurchasePriceOnly(df, codes, mapped_lookup) ==
    LET Row(r) ==
            IF r["ItemCode"] \in Range(codes)
            THEN [r EXCEPT !["PurchasePrice"] = Loc(mapped_lookup, r["ItemCode"])["PurchasePrice"]]
            ELSE r
    IN DataFrame(df.columns, [i \in DOMAIN df.rows |-> Row(df.rows[i])])

\* catalog_indexed.loc[codes_to_update, price] = mapped_lookup.loc[codes_to_update, price]
\* on the catalog indexed by ItemCode (drop=False), then reset_index(drop=True).
UpdatePrices(df, codes, mapped_lookup) ==
    LET Row(r) ==
            IF r["ItemCode"] \in Range(codes)
            THEN [r EXCEPT !["PurchasePrice"] = Loc(mapped_lookup, r["ItemCode"])["PurchasePrice"],
                           !["SalesPrice"] = Loc(mapped_lookup, r["ItemCode"])["SalesPrice"]]
            ELSE r
    IN DataFrame(df.columns, [i \in DOMAIN df.rows |-> Row(df.rows[i])])

\* A new-items row whose three trailing columns are left empty.
NewItemRowEmptyIds(m) ==
    [c \in Range(NEW_ITEMS_COLUMNS) |->
        CASE c = "Id" -> Star
          [] c = "RecordStatusId" -> 1
          [] c \in {"ItemMaster_Id", "AspNetUser_Id", "SupersededItemCode"} -> <<>>
          [] OTHER -> m[c]]

\* One row of new_items_df, built from one row of mapped_lookup.loc[new_codes].
NewItemRow(m) ==
    [c \in Range(NEW_ITEMS_COLUMNS) |->
        CASE c = "Id" -> Star
          [] c = "RecordStatusId" -> 1
          [] c \in {"ItemMaster_Id", "AspNetUser_Id", "SupersededItemCode"} -> NULL
          [] OTHER -> m[c]]

\* new_items_df: pd.DataFrame() unless there are new codes.
NewItemsFrame(new_codes, mapped_lookup) ==
    IF Len(new_codes) > 0
    THEN DataFrame(NEW_ITEMS_COLUMNS,
                   [k \in DOMAIN new_codes |-> NewItemRow(Loc(mapped_lookup, new_codes[k]))])
    ELSE DataFrame(<<>>, <<>>)

\* A reindex that puts the required columns first, as reset_index() does with
\* the index column.
ReindexRequiredFirst(df, order) ==
    LET cols == required_catalog_cols
                  \o SelectSeq(order, LAMBDA c : c \notin Range(required_catalog_cols))
    IN DataFrame(cols,
                 [i \in DOMAIN df.rows |-> [c \in Range(cols) |-> df.rows[i][c]]])

\* df.reindex(columns=order): the columns named, in that order (NaN where absent).
Reindex(df, order) ==
    DataFrame(order,
              [i \in DOMAIN df.rows |->
                 [c \in Range(order) |->
                    IF c \in ColSet(df) THEN df.rows[i][c] ELSE NaN]])

NoResult == [raised |-> FALSE, missing |-> <<>>, catalog |-> None, new_items |-> None,
             updated_count |-> 0, new_count |-> 0, ran |-> FALSE]

compare_and_build_exports(mapped, catalog) ==
    LET missing == MissingCols(catalog)
        work == CopyFrame(catalog)
        original_col_order == catalog.columns
        df_catalog_updated == WithNormalizedCodes(work.frame)
        local == CopyFrame(mapped)
        df_mapped_local == WithNormalizedCodes(local.frame)
        catalog_lookup == Lookup(df_catalog_updated)
        mapped_lookup == Lookup(df_mapped_local)
        new_codes == NewCodes(catalog_lookup, mapped_lookup)
        codes_to_update == CodesToUpdate(catalog_lookup, mapped_lookup)
        updated == IF Len(codes_to_update) > 0
                   THEN UpdatePrices(df_catalog_updated, codes_to_update, mapped_lookup)
                   ELSE df_catalog_updated
    IN IF Len(missing) > 0
       THEN [ret |-> [NoResult EXCEPT !.raised = TRUE, !.missing = missing, !.ran = TRUE],
             arg_catalog |-> catalog, arg_mapped |-> mapped]
       ELSE [ret |-> [raised |-> FALSE, missing |-> <<>>,
                      catalog |-> Reindex(updated, original_col_order),
                      new_items |-> NewItemsFrame(new_codes, mapped_lookup),
                      updated_count |-> Len(codes_to_update),
                      new_count |-> Len(new_codes), ran |-> TRUE],
             arg_catalog |-> CallerSees(work, catalog, df_catalog_updated),
             arg_mapped |-> CallerSees(local, mapped, df_mapped_local)]

\* ------------------------------------------------------- inputs of the model
SeqsUpTo(S, n) == UNION {[1..k -> S] : k \in 0..n}

SOURCE_COLUMNS == <<"Code", "Desc", "Cost">>

SrcRow(code, desc, cost) == [Code |-> code, Desc |-> desc, Cost |-> cost]

\* Rows of uploaded source files: a repeated key with another description,
\* a key with surrounding blanks, blank keys (text and spreadsheet-blank).
SourceRows ==
    {SrcRow(<<"A">>, <<"d", "1">>, <<"5">>),
     SrcRow(<<"A">>, <<"d", "2">>, <<"1", ",", "0">>),
     SrcRow(<<" ", "A">>, <<"d", "2">>, <<"1", "0">>),
     SrcRow(<<"B">>, <<"d", "1">>, <<>>),
     SrcRow(<<" ">>, <<"d", "1">>, <<"5">>),
     SrcRow(<<>>, <<"d", "2">>, <<"5">>),
     SrcRow(NaN, <<"d", "1">>, <<"x">>)}

SourceTables == {DataFrame(SOURCE_COLUMNS, r) : r \in SeqsUpTo(SourceRows, MaxSrcRows)}

Mapping(code, desc, pp, sp) ==
    [f \in DROPDOWN_MAPPED_FIELDS |->
        CASE f = "ItemCode" -> code
          [] f = "Description" -> desc
          [] f = "PurchasePrice" -> pp
          [] f = "SalesPrice" -> sp
          [] OTHER -> NotMapped]

\* st.session_state.mapping as first initialised: every field "(not mapped)".
InitialMapping == Mapping(NotMapped, NotMapped, NotMapped, NotMapped)

Mappings ==
    {InitialMapping,
     Mapping("Code", "Desc", "Cost", "Cost"),
     Mapping("Code", NotMapped, "Cost", NotMapped)}

marina_location_id == <<"7">>
addition_dt == <<"t">>

CatRow(code, pp, sp, notes) ==
    [ItemCode |-> code, PurchasePrice |-> pp, SalesPrice |-> sp, Notes |-> notes]

CatalogRows ==
    {CatRow(<<"A">>, <<"5">>, <<"5">>, <<"n", "1">>),
     CatRow(<<" ", "A">>, <<"1", "0">>, <<"1", "0">>, <<"n", "2">>),
     CatRow(<<"B">>, <<"5">>, <<"x">>, <<"n", "1">>),
     CatRow(<<" ", "C">>, <<"5">>, <<"5">>, <<"n", "1">>),
     CatRow(NaN, <<>>, <<" ", "5">>, <<"n", "2">>),
     CatRow(<<"B">>, <<"N", "o", "n", "e">>, <<"n", "a", "n">>, <<"n", "2">>)}

CatalogLayouts ==
    {<<"ItemCode", "PurchasePrice", "SalesPrice">>,
     <<"Notes", "SalesPrice", "ItemCode", "PurchasePrice">>,
     <<"ItemCode", "Notes", "SalesPrice">>,
     <<"Notes">>}

\* The table a reader returns for a file with these columns and rows.
Project(cols, rws) ==
    DataFrame(cols, [i \in DOMAIN rws |-> [c \in Range(cols) |-> rws[i][c]]])

CatalogTables ==
    {Project(cols, r) : cols \in CatalogLayouts, r \in SeqsUpTo(CatalogRows, MaxCatRows)}

\* The web app starts no thread.
NoWorkers == <<>>

\* ------------------------------------------------------------ the session
\* Every rerun of the script starts without the outputs of an earlier export.
Init ==
    /\ df_source = None
    /\ df_catalog = None
    /\ df_mapped = None
    /\ mapping = InitialMapping
    /\ out = NoResult
    /\ event = "init"
    /\ workers = NoWorkers

\* Sidebar, "Step 1 - Upload Source": read_uploaded_file returns a table.
UploadSource(table) ==
    /\ df_source' = table
    /\ event' = "source_loaded"
    /\ out' = NoResult
    /\ UNCHANGED <<df_catalog, df_mapped, mapping, workers>>

\* Sidebar, "Step 1 - Upload Source": read_uploaded_file raises.
UploadSourceFails ==
    /\ df_source' = None
    /\ event' = "source_load_failed"
    /\ out' = NoResult
    /\ UNCHANGED <<df_catalog, df_mapped, mapping, workers>>

\* Sidebar, "Step 2 - Upload Marina Catalog": read_uploaded_file returns a table.
UploadCatalog(table) ==
    /\ df_catalog' = table
    /\ event' = "catalog_loaded"
    /\ out' = NoResult
    /\ UNCHANGED <<df_source, df_mapped, mapping, workers>>

\* Sidebar, "Step 2 - Upload Marina Catalog": read_uploaded_file raises.
UploadCatalogFails ==
    /\ df_catalog' = None
    /\ event' = "catalog_load_failed"
    /\ out' = NoResult
    /\ UNCHANGED <<df_source, df_mapped, mapping, workers>>

\* The mapping dropdowns, shown once a source is loaded.
SelectMapping(m) ==
    /\ df_source # None
    /\ \A f \in DROPDOWN_MAPPED_FIELDS : m[f] = NotMapped \/ m[f] \in ColSet(df_source)
    /\ mapping' = m
    /\ event' = "mapping_selected"
    /\ out' = NoResult
    /\ UNCHANGED <<df_source, df_catalog, df_mapped, workers>>

\* The "Create Mapped Fields" button, shown once a source is loaded.
CreateMappedFields ==
    /\ df_source # None
    /\ IF mapping["ItemCode"] = NotMapped
       THEN /\ event' = "mapping_blocked"
            /\ UNCHANGED df_mapped
       ELSE /\ df_mapped' = build_df_mapped(df_source, mapping, marina_location_id,
                                            addition_dt)
            /\ event' = "mapped_created"
    /\ out' = NoResult
    /\ UNCHANGED <<df_source, df_catalog, mapping, workers>>

\* The "Export Updated Catalog + New Items" button, shown once df_mapped and
\* df_catalog are there.
Export ==
    /\ df_mapped # None
    /\ df_catalog # None
    /\ LET r == compare_and_build_exports(df_mapped, df_catalog)
       IN /\ out' = r.ret
          /\ df_catalog' = r.arg_catalog
          /\ df_mapped' = r.arg_mapped
          /\ event' = IF r.ret.raised THEN "export_failed" ELSE "export_done"
    /\ UNCHANGED <<df_source, mapping, workers>>

SessionSources ==
    {DataFrame(SOURCE_COLUMNS, r) :
        r \in {<<>>,
               <<SrcRow(<<"A">>, <<"d", "1">>, <<"5">>)>>,
               <<SrcRow(<<"A">>, <<"d", "1">>, <<"5">>), SrcRow(<<" ", "A">>, <<"d", "2">>, <<"1", "0">>)>>,
               <<SrcRow(<<"B">>, <<"d", "1">>, <<>>), SrcRow(NaN, <<"d", "1">>, <<"x">>)>>}}

SessionCatalogs ==
    {Project(cols, r) :
        cols \in CatalogLayouts,
        r \in {<<CatRow(<<"A">>, <<"5">>, <<"5">>, <<"n", "1">>)>>,
               <<CatRow(<<" ", "C">>, <<"5">>, <<"5">>, <<"n", "1">>),
                 CatRow(<<"B">>, <<"5">>, <<"x">>, <<"n", "1">>)>>}}

Next ==
    \/ \E t \in SessionSources : UploadSource(t)
    \/ UploadSourceFails
    \/ \E t \in SessionCatalogs : UploadCatalog(t)
    \/ UploadCatalogFails
    \/ \E m \in Mappings : SelectMapping(m)
    \/ CreateMappedFields
    \/ Export

Spec == Init /\ [][Next]_vars

\* ---------------------------------------- build_df_mapped on bounded inputs
InitMap ==
    /\ df_source \in SourceTables
    /\ mapping \in Mappings
    /\ df_catalog = None
    /\ df_mapped = None
    /\ out = NoResult
    /\ event = "init"
    /\ workers = NoWorkers

SpecMap == InitMap /\ [][CreateMappedFields]_vars

\* ------------------------------ compare_and_build_exports on bounded inputs
RecSourceRows ==
    {SrcRow(<<"A">>, <<"d", "1">>, <<"5">>),
     SrcRow(<<"A">>, <<"d", "2">>, <<"1", ",", "0">>),
     SrcRow(<<"B">>, <<"d", "1">>, <<>>),
     SrcRow(NaN, <<"d", "1">>, <<" ", "5">>)}

RecSources == {DataFrame(SOURCE_COLUMNS, r) : r \in SeqsUpTo(RecSourceRows, MaxSrcRows)}

InitRec ==
    /\ df_source = None
    /\ mapping \in Mappings \ {InitialMapping}
    /\ \E s \in RecSources :
          df_mapped = build_df_mapped(s, mapping, marina_location_id, addition_dt)
    /\ df_catalog \in CatalogTables
    /\ out = NoResult
    /\ event = "mapped_created"
    /\ workers = NoWorkers

SpecRec == InitRec /\ [][Export]_vars

\* ======================================================== build_df_mapped
\* The key of source row i: its mapped ItemCode cell as text, trimmed.
SrcKey(i) == Strip(AsStr(df_source.rows[i][mapping["ItemCode"]]))

\* Source rows that are the last occurrence of a non-empty key.
LastOccurrences ==
    {i \in DOMAIN df_source.rows :
        /\ SrcKey(i) # <<>>
        /\ \A j \in DOMAIN df_source.rows : j > i => SrcKey(j) # SrcKey(i)}

\* The standardized row that source row i maps to.
StandardRowOf(i) ==
    [f \in Range(STANDARD_HEADERS) |->
        CASE f = "ItemCode" -> SrcKey(i)
          [] f = "MarinaLocationId" -> marina_location_id
          [] f = "AdditionDatetime" -> addition_dt
          [] OTHER -> IF mapping[f] = NotMapped THEN <<>>
                      ELSE df_source.rows[i][mapping[f]]]

IsBlankCell(c) == c = NaN \/ Strip(c) = <<>>

\* C6: no row whose mapped ItemCode source cell is empty or whitespace-only
\* appears in the standardized table: every row of the table comes from a
\* source row whose ItemCode cell is not blank; and every ItemCode of the table
\* is non-empty and has no leading or trailing whitespace.
C6_BlankKeyExclusion ==
    event = "mapped_created" =>
        \A k \in DOMAIN df_mapped.rows :
            LET code == df_mapped.rows[k]["ItemCode"]
            IN /\ code # <<>>
               /\ Head(code) # " "
               /\ code[Len(code)] # " "
               /\ \E i \in DOMAIN df_source.rows :
                     /\ ~IsBlankCell(df_source.rows[i][mapping["ItemCode"]])
                     /\ df_mapped.rows[k] = StandardRowOf(i)

\* ============================================== compare_and_build_exports
\* The key of catalog row i: its ItemCode cell as text, trimmed.
CatKey(i) == Strip(AsStr(df_catalog.rows[i]["ItemCode"]))

CatKeys == {CatKey(i) : i \in DOMAIN df_catalog.rows}

StdKeys == {df_mapped.rows[k]["ItemCode"] : k \in DOMAIN df_mapped.rows}

StdRow(code) ==
    df_mapped.rows[CHOOSE k \in DOMAIN df_mapped.rows :
                      df_mapped.rows[k]["ItemCode"] = code]

\* The catalog row that stands for a key: its last occurrence.
LastCatRow(code) ==
    df_catalog.rows[CHOOSE i \in DOMAIN df_catalog.rows :
                       /\ CatKey(i) = code
                       /\ \A j \in DOMAIN df_catalog.rows : CatKey(j) = code => j <= i]

\* A standardized price that parses to no number.
NullPriced(code) ==
    \/ to_num(StdRow(code)["PurchasePrice"]) = NoNumber
    \/ to_num(StdRow(code)["SalesPrice"]) = NoNumber

\* A key of both tables whose parsed prices differ.
Differs(code) ==
    \/ Ne(to_num(LastCatRow(code)["PurchasePrice"]), to_num(StdRow(code)["PurchasePrice"]))
    \/ Ne(to_num(LastCatRow(code)["SalesPrice"]), to_num(StdRow(code)["SalesPrice"]))

\* Reconciling the same standardized table against the updated catalog.
SecondPass == compare_and_build_exports(df_mapped, out.catalog).ret

\* C1 as stated: a second reconcile of S against the updated catalog returns
\* updatedCount = 0 and newCount = 0.
C1_Idempotent ==
    event = "export_done" =>
        /\ SecondPass.updated_count = 0
        /\ SecondPass.new_count = 0

\* C1 amended: a second reconcile of S against the updated catalog changes
\* nothing in it and builds the same new-items table; newCount is again the
\* number of keys of S absent from the catalog, and updatedCount is the number
\* of keys of both tables with a standardized price that parses to no number.
C1_SecondPassStable ==
    event = "export_done" =>
        /\ ~SecondPass.raised
        /\ SecondPass.catalog = out.catalog
        /\ SecondPass.new_items = out.new_items
        /\ SecondPass.new_count = out.new_count
        /\ SecondPass.new_count = Cardinality(StdKeys \ CatKeys)
        /\ SecondPass.updated_count
              = Cardinality({c \in StdKeys \cap CatKeys : NullPriced(c)})

\* The first pass updated a key whose prices all parse, the second pass finds
\* nothing to update, and a new key is reported both times.
C1_Witness ==
    /\ event = "export_done"
    /\ out.updated_count > 0
    /\ out.new_count > 0
    /\ SecondPass.updated_count = 0
    /\ SecondPass.new_count > 0

\* C2: the new-items table has exactly the new-items columns, in order, also
\* when no standardized key is new.
C2_NewItemsSchema ==
    event = "export_done" => out.new_items.columns = NEW_ITEMS_COLUMNS

\* C3: a catalog row whose key matches no standardized key is in the updated
\* catalog at the same position with every cell as it was, and the updated
\* catalog has as many rows as the catalog.
C3_CatalogOnlyRowsUntouched ==
    event = "export_done" =>
        /\ Len(out.catalog.rows) = Len(df_catalog.rows)
        /\ \A i \in DOMAIN df_catalog.rows :
              CatKey(i) \notin StdKeys => out.catalog.rows[i] = df_catalog.rows[i]

\* C4: a row whose key is flagged as differing has its PurchasePrice and
\* SalesPrice cells overwritten with the standardized row's texts and every
\* other cell as it was; a row whose key is in both tables and not flagged has
\* every cell as it was.
C4_SelectivePriceUpdate ==
    event = "export_done" =>
        \A i \in DOMAIN df_catalog.rows :
            CatKey(i) \in StdKeys =>
                out.catalog.rows[i] =
                    IF Differs(CatKey(i))
                    THEN [df_catalog.rows[i] EXCEPT
                            !["PurchasePrice"] = StdRow(CatKey(i))["PurchasePrice"],
                            !["SalesPrice"] = StdRow(CatKey(i))["SalesPrice"]]
                    ELSE df_catalog.rows[i]

\* C7: the updated catalog has the catalog's column names in the catalog's
\* order, and each of its rows has a cell for exactly these columns.
C7_ColumnOrder ==
    event = "export_done" =>
        /\ out.catalog.columns = df_catalog.columns
        /\ \A i \in DOMAIN out.catalog.rows :
              DOMAIN out.catalog.rows[i] = Range(df_catalog.columns)

\* A catalog with an extra column ahead of the required ones had a row updated.
C7_Witness ==
    /\ event = "export_done"
    /\ df_catalog.columns = <<"Notes", "SalesPrice", "ItemCode", "PurchasePrice">>
    /\ out.updated_count > 0
    /\ out.catalog.columns = <<"Notes", "SalesPrice", "ItemCode", "PurchasePrice">>

\* The new-items row of a standardized row.
ExpectedNewItem(m) ==
    [Id |-> <<"*">>, Supplier |-> m["Supplier"], ItemCode |-> m["ItemCode"],
     Description |-> m["Description"], PurchasePrice |-> m["PurchasePrice"],
     SalesPrice |-> m["SalesPrice"], SV_ManufacturerId |-> m["SV_ManufacturerId"],
     ListCategory |-> m["ListCategory"], RecordStatusId |-> 1,
     MarinaLocationId |-> m["MarinaLocationId"],
     AdditionDatetime |-> m["AdditionDatetime"],
     ItemMaster_Id |-> <<"N", "U", "L", "L">>, AspNetUser_Id |-> <<"N", "U", "L", "L">>,
     SupersededItemCode |-> <<"N", "U", "L", "L">>]

\* C8: each standardized row whose key is absent from the catalog has exactly
\* one new-items row, with its nine values and the fixed literals; no key of
\* the catalog is in new-items; newCount is the number of new-items rows.
C8_NewItemSynthesis ==
    event = "export_done" =>
        /\ out.new_count = Len(out.new_items.rows)
        /\ \A k \in DOMAIN df_mapped.rows :
              df_mapped.rows[k]["ItemCode"] \notin CatKeys =>
                  /\ Cardinality({n \in DOMAIN out.new_items.rows :
                                     out.new_items.rows[n]["ItemCode"]
                                        = df_mapped.rows[k]["ItemCode"]}) = 1
                  /\ \E n \in DOMAIN out.new_items.rows :
                        out.new_items.rows[n] = ExpectedNewItem(df_mapped.rows[k])
        /\ \A n \in DOMAIN out.new_items.rows :
              out.new_items.rows[n]["ItemCode"] \notin CatKeys

\* One standardized key is in the catalog (under a key with a leading blank)
\* and another is not: one new-items row is built.
C8_Witness ==
    /\ event = "export_done"
    /\ out.new_count = 1
    /\ Len(df_mapped.rows) = 2
    /\ \E i \in DOMAIN df_catalog.rows :
          /\ CatKey(i) \in StdKeys
          /\ df_catalog.rows[i]["ItemCode"] # CatKey(i)

\* C9: an export on a catalog that lacks required columns fails with an error
\* that names exactly the missing ones, returns no table and no count, and
\* leaves the catalog and the standardized table as they were.
C9_SchemaFailure ==
    [][(/\ event' \in {"export_done", "export_failed"}
        /\ \E c \in Range(required_catalog_cols) : c \notin Range(df_catalog.columns))
       => /\ event' = "export_failed"
          /\ out'.raised
          /\ Range(out'.missing)
               = {c \in Range(required_catalog_cols) : c \notin Range(df_catalog.columns)}
          /\ Len(out'.missing) = Cardinality(Range(out'.missing))
          /\ out'.catalog = None
          /\ out'.new_items = None
          /\ out'.updated_count = 0
          /\ out'.new_count = 0
          /\ df_catalog' = df_catalog
          /\ df_mapped' = df_mapped]_vars

\* An export failed on a catalog that lacks PurchasePrice only.
C9_Witness ==
    /\ event = "export_failed"
    /\ out.raised
    /\ out.missing = <<"PurchasePrice">>
    /\ "ItemCode" \in Range(df_catalog.columns)

\* ============================================================ the uploads
\* C10: a load that fails leaves the loaded source, catalog and mapped table
\* as they were before it.
C10_FailedLoadKeepsTables ==
    [][event' \in {"source_load_failed", "catalog_load_failed"}
       => /\ df_source' = df_source
          /\ df_catalog' = df_catalog
          /\ df_mapped' = df_mapped]_vars

\* ================================================== inputs left untouched
\* C12: a call of reconcile, successful or failed, leaves the caller's catalog
\* and standardized table cell for cell and column for column as they were
\* passed in, so a later call on the same inputs returns the same result.
C12_InputsNotMutated ==
    [][event' \in {"export_done", "export_failed"}
       => /\ df_catalog' = df_catalog
          /\ df_mapped' = df_mapped
          /\ compare_and_build_exports(df_mapped', df_catalog').ret = out']_vars

\* An export updated a row of a catalog whose ItemCode cells are not all
\* trimmed, and the caller's catalog still holds the untrimmed cell.
C12_Witness ==
    /\ event = "export_done"
    /\ out.updated_count > 0
    /\ \E i \in DOMAIN df_catalog.rows :
          /\ df_catalog.rows[i]["ItemCode"] # CatKey(i)
          /\ out.catalog.rows[i]["ItemCode"] = CatKey(i)

\* ========================================================= difference rule
\* The number a price cell stands for, for the price cells of this model:
\* commas and surrounding blanks dropped; empty, "nan", "None", a blank
\* spreadsheet cell and unparsable text stand for no number.
ExpectedNumber(cell) ==
    CASE cell = <<"5">> -> <<5>>
      [] cell = <<" ", "5">> -> <<5>>
      [] cell = <<"1", "0">> -> <<10>>
      [] cell = <<"1", ",", "0">> -> <<10>>
      [] cell \in {<<>>, <<"x">>, <<"n", "a", "n">>, <<"N", "o", "n", "e">>, NaN} -> <<>>

\* Null differs from every number and from null.
ExpectedDiffers(a, b) ==
    ExpectedNumber(a) = <<>> \/ ExpectedNumber(b) = <<>>
        \/ ExpectedNumber(a) # ExpectedNumber(b)

MustUpdate(code) ==
    \/ ExpectedDiffers(LastCatRow(code)["PurchasePrice"], StdRow(code)["PurchasePrice"])
    \/ ExpectedDiffers(LastCatRow(code)["SalesPrice"], StdRow(code)["SalesPrice"])

\* C13: a key of both tables is updated, and counted in updatedCount, exactly
\* when its parsed PurchasePrice or SalesPrice differs between the catalog and
\* the standardized table; prices that differ by comma formatting alone
\* trigger no update, a null on either side or on both always does.
C13_DifferenceRule ==
    event = "export_done" =>
        /\ out.updated_count = Cardinality({c \in StdKeys \cap CatKeys : MustUpdate(c)})
        /\ \A i \in DOMAIN df_catalog.rows :
              CatKey(i) \in StdKeys =>
                  LET old == df_catalog.rows[i]
                      new == out.catalog.rows[i]
                      std == StdRow(CatKey(i))
                  IN IF MustUpdate(CatKey(i))
                     THEN /\ new["PurchasePrice"] = std["PurchasePrice"]
                          /\ new["SalesPrice"] = std["SalesPrice"]
                     ELSE /\ new["PurchasePrice"] = old["PurchasePrice"]
                          /\ new["SalesPrice"] = old["SalesPrice"]

\* One key has prices that differ from the catalog's by a comma only and is
\* not updated; another has a null price on both sides and is updated.
C13_Witness ==
    /\ event = "export_done"
    /\ out.updated_count = 1
    /\ \E c \in StdKeys \cap CatKeys :
          /\ ~MustUpdate(c)
          /\ StdRow(c)["PurchasePrice"] = <<"1", ",", "0">>
          /\ LastCatRow(c)["PurchasePrice"] = <<"1", "0">>
    /\ \E c \in StdKeys \cap CatKeys :
          /\ ExpectedNumber(StdRow(c)["PurchasePrice"]) = <<>>
          /\ ExpectedNumber(LastCatRow(c)["PurchasePrice"]) = <<>>

\* ================================================ the desktop application
OUTPUT_COLUMNS ==
    <<"Supplier", "ItemCode", "Description", "PurchasePrice", "SalesPrice",
      "SV_ManufacturerId", "ListCategory", "MarinaLocationId", "AdditionDatetime">>

NUMERIC_COLUMNS == {"PurchasePrice", "SalesPrice"}

\* self.dropdowns and self.text_inputs hold no entry before build_mapping_ui.
NoWidget == "(no widget)"

\* A readonly combobox with nothing chosen.
Unchosen == ""

\* A number in a cell: the text of its digits, marked as a float.
Float(t) == <<"float">> \o t

\* pd.to_numeric(..., errors="coerce") on one cell.  The price texts of the
\* desktop model are digit strings, letters and blank cells.
ToNumeric(cell) ==
    IF cell = NaN \/ cell = <<>> THEN NaN
    ELSE IF Head(cell) = "float" THEN cell
    ELSE IF \A k \in DOMAIN cell : cell[k] \in Digits THEN Float(cell)
    ELSE NaN

\* frame[name] = series: an empty frame takes the rows of the series, a frame
\* with rows aligns the series on its own rows.
SetColumn(frame, name, series) ==
    IF Len(frame.rows) = 0
    THEN DataFrame(frame.columns,
                   [i \in DOMAIN series |->
                      [c \in ColSet(frame) |-> IF c = name THEN series[i] ELSE NaN]])
    ELSE DataFrame(frame.columns,
                   [i \in DOMAIN frame.rows |->
                      [frame.rows[i] EXCEPT
                         ![name] = IF i \in DOMAIN series THEN series[i] ELSE NaN]])

\* frame[name] = value, a scalar for every row there is.
SetScalar(frame, name, value) ==
    DataFrame(frame.columns,
              [i \in DOMAIN frame.rows |-> [frame.rows[i] EXCEPT ![name] = value]])

WithNumericPrices(frame) ==
    DataFrame(frame.columns,
              [i \in DOMAIN frame.rows |->
                 [frame.rows[i] EXCEPT !["PurchasePrice"] = ToNumeric(@),
                                       !["SalesPrice"] = ToNumeric(@)]])

\* A thread made by run_in_thread: the function it runs, where it is in it, and
\* the function's local tables.
Thread(kind, pc) == [kind |-> kind, pc |-> pc, col |-> 0, catalog |-> None, mapped |-> None]

\* The function has returned; its locals are gone.
Finished(thread) == Thread(thread.kind, "done")

\* The loop of export_updated_catalog over mapped.iterrows(), from row k on:
\* acc holds the catalog rows (first occurrence of each ItemCode) and the new
\* items gathered so far.
RECURSIVE IterRows(_, _, _)
IterRows(mapped_rows, k, acc) ==
    IF k > Len(mapped_rows) THEN acc
    ELSE LET row == mapped_rows[k]
             hits == {i \in DOMAIN acc.catalog : acc.catalog[i]["ItemCode"] = row["ItemCode"]}
         IN IF hits = {}
            THEN IterRows(mapped_rows, k + 1,
                          [acc EXCEPT !.new_items = Append(@, row)])
            ELSE LET i == CHOOSE h \in hits : TRUE
                     cat_row == acc.catalog[i]
                     differs == /\ row["PurchasePrice"] # NaN
                                /\ row["SalesPrice"] # NaN
                                /\ \/ cat_row["PurchasePrice"] # row["PurchasePrice"]
                                   \/ cat_row["SalesPrice"] # row["SalesPrice"]
                 IN IterRows(mapped_rows, k + 1,
                             IF differs
                             THEN [acc EXCEPT
                                     !.catalog[i]["PurchasePrice"] = row["PurchasePrice"],
                                     !.catalog[i]["SalesPrice"] = row["SalesPrice"]]
                             ELSE acc)

\* The body of export_updated_catalog after the two copies: the files written.
DesktopExport(mapped, catalog) ==
    IF \E c \in Range(required_catalog_cols) : c \notin ColSet(catalog)
    THEN [NoResult EXCEPT !.raised = TRUE, !.ran = TRUE]
    ELSE LET original_catalog_columns == catalog.columns
             cat == WithNumericPrices(catalog)
             map == WithNumericPrices(mapped)
             first == DropDuplicatesFirst(Column(cat, "ItemCode"))
             done == IterRows(map.rows, 1,
                              [catalog |-> [k \in DOMAIN first |-> cat.rows[first[k]]],
                               new_items |-> <<>>])
         IN [NoResult EXCEPT
               !.ran = TRUE,
               !.catalog = DataFrame(original_catalog_columns, done.catalog),
               !.new_items = IF Len(done.new_items) > 0
                             THEN DataFrame(OUTPUT_COLUMNS, done.new_items)
                             ELSE None,
               !.new_count = Len(done.new_items)]

DesktopInit ==
    /\ df_source = None
    /\ df_catalog = None
    /\ df_mapped = None
    /\ mapping = [f \in DROPDOWN_MAPPED_FIELDS |-> NoWidget]
    /\ out = NoResult
    /\ event = "init"
    /\ workers = NoWorkers

\* load_file: the file is read, then build_mapping_ui makes fresh widgets.
LoadFile(table) ==
    /\ df_source' = table
    /\ mapping' = [f \in DROPDOWN_MAPPED_FIELDS |-> Unchosen]
    /\ event' = "source_loaded"
    /\ UNCHANGED <<df_catalog, df_mapped, out, workers>>

\* load_file: _read_input_file raises.
LoadFileFails ==
    /\ event' = "source_load_failed"
    /\ UNCHANGED <<df_source, df_catalog, df_mapped, mapping, out, workers>>

\* The user picks source columns in the dropdowns.
ChooseColumns(m) ==
    /\ mapping["ItemCode"] # NoWidget
    /\ \A f \in DROPDOWN_MAPPED_FIELDS : m[f] = Unchosen \/ m[f] \in ColSet(df_source)
    /\ mapping' = m
    /\ event' = "mapping_selected"
    /\ UNCHANGED <<df_source, df_catalog, df_mapped, out, workers>>

\* load_marina_catalog: the file is read.
LoadMarinaCatalog(table) ==
    /\ df_catalog' = table
    /\ event' = "catalog_loaded"
    /\ UNCHANGED <<df_source, df_mapped, mapping, out, workers>>

\* load_marina_catalog: _read_input_file raises.
LoadMarinaCatalogFails ==
    /\ event' = "catalog_load_failed"
    /\ UNCHANGED <<df_source, df_catalog, df_mapped, mapping, out, workers>>

\* "Generate Mapped Output": run_in_thread(self.generate_output).
StartGenerate ==
    /\ Len(workers) < MaxWorkers
    /\ workers' = Append(workers, Thread("generate", "reset"))
    /\ event' = "generate_started"
    /\ UNCHANGED <<df_source, df_catalog, df_mapped, mapping, out>>

\* "Export Updated Marina Catalog", a folder chosen:
\* run_in_thread(lambda: self.export_updated_catalog(folder)).
StartExport ==
    /\ Len(workers) < MaxWorkers
    /\ workers' = Append(workers, Thread("export", "check"))
    /\ event' = "export_started"
    /\ UNCHANGED <<df_source, df_catalog, df_mapped, mapping, out>>

\* generate_output: self.df_mapped = pd.DataFrame(columns=OUTPUT_COLUMNS)
GenerateReset(w) ==
    /\ workers[w].kind = "generate"
    /\ workers[w].pc = "reset"
    /\ df_mapped' = DataFrame(OUTPUT_COLUMNS, <<>>)
    /\ workers' = [workers EXCEPT ![w].pc = "column", ![w].col = 1]
    /\ UNCHANGED <<df_source, df_catalog, mapping, out, event>>

\* generate_output: one turn of the loop over OUTPUT_COLUMNS.
GenerateColumn(w) ==
    /\ workers[w].kind = "generate"
    /\ workers[w].pc = "column"
    /\ LET col == OUTPUT_COLUMNS[workers[w].col]
       IN /\ df_mapped' =
                IF col \in DROPDOWN_MAPPED_FIELDS /\ mapping[col] \notin {NoWidget, Unchosen}
                THEN SetColumn(df_mapped, col, Column(df_source, mapping[col]))
                ELSE IF col = "MarinaLocationId" /\ mapping["ItemCode"] # NoWidget
                THEN SetScalar(df_mapped, col, marina_location_id)
                ELSE IF col = "AdditionDatetime" /\ mapping["ItemCode"] # NoWidget
                THEN SetScalar(df_mapped, col, addition_dt)
                ELSE df_mapped
          /\ workers' = IF workers[w].col < Len(OUTPUT_COLUMNS)
                        THEN [workers EXCEPT ![w].col = @ + 1]
                        ELSE [workers EXCEPT ![w].pc = "numeric"]
    /\ UNCHANGED <<df_source, df_catalog, mapping, out, event>>

\* generate_output: the price columns made numeric, then "Mapped data generated."
GenerateNumeric(w) ==
    /\ workers[w].kind = "generate"
    /\ workers[w].pc = "numeric"
    /\ df_mapped' = WithNumericPrices(df_mapped)
    /\ workers' = [workers EXCEPT ![w] = Finished(@)]
    /\ event' = "mapped_generated"
    /\ UNCHANGED <<df_source, df_catalog, mapping, out>>

\* export_updated_catalog: the test for missing tables.
ExportCheck(w) ==
    /\ workers[w].kind = "export"
    /\ workers[w].pc = "check"
    /\ IF df_mapped = None \/ df_catalog = None
       THEN /\ workers' = [workers EXCEPT ![w] = Finished(@)]
            /\ event' = "export_warning"
       ELSE /\ workers' = [workers EXCEPT ![w].pc = "copy_catalog"]
            /\ UNCHANGED event
    /\ UNCHANGED <<df_source, df_catalog, df_mapped, mapping, out>>

\* export_updated_catalog: catalog = self.df_catalog.copy()
ExportCopyCatalog(w) ==
    /\ workers[w].kind = "export"
    /\ workers[w].pc = "copy_catalog"
    /\ workers' = [workers EXCEPT ![w].catalog = df_catalog, ![w].pc = "copy_mapped"]
    /\ UNCHANGED <<df_source, df_catalog, df_mapped, mapping, out, event>>

\* export_updated_catalog: mapped = self.df_mapped.copy()
ExportCopyMapped(w) ==
    /\ workers[w].kind = "export"
    /\ workers[w].pc = "copy_mapped"
    /\ workers' = [workers EXCEPT ![w].mapped = df_mapped, ![w].pc = "write"]
    /\ UNCHANGED <<df_source, df_catalog, df_mapped, mapping, out, event>>

\* export_updated_catalog: the comparison and the two files.
ExportWrite(w) ==
    /\ workers[w].kind = "export"
    /\ workers[w].pc = "write"
    /\ LET r == DesktopExport(workers[w].mapped, workers[w].catalog)
       IN /\ out' = IF r.raised THEN out ELSE r
          /\ event' = IF r.raised THEN "export_failed" ELSE "export_done"
    /\ workers' = [workers EXCEPT ![w] = Finished(@)]
    /\ UNCHANGED <<df_source, df_catalog, df_mapped, mapping>>

DesktopSources ==
    {DataFrame(SOURCE_COLUMNS, r) :
        r \in {<<SrcRow(<<"A">>, <<"d", "1">>, <<"5">>),
                 SrcRow(<<"B">>, <<"d", "2">>, <<"1", "0">>)>>}}

DesktopCatalogs ==
    {Project(cols, r) :
        cols \in {<<"Notes", "SalesPrice", "ItemCode", "PurchasePrice">>,
                  <<"ItemCode", "Notes", "SalesPrice">>},
        r \in {<<CatRow(<<"A">>, <<"5">>, <<"x">>, <<"n", "1">>),
                 CatRow(<<"A">>, <<"1", "0">>, <<"5">>, <<"n", "2">>)>>}}

DesktopMapping(code, desc, pp, sp) ==
    [f \in DROPDOWN_MAPPED_FIELDS |->
        CASE f = "ItemCode" -> code
          [] f = "Description" -> desc
          [] f = "PurchasePrice" -> pp
          [] f = "SalesPrice" -> sp
          [] OTHER -> Unchosen]

DesktopMappings ==
    {DesktopMapping("Code", "Desc", "Cost", "Cost"),
     DesktopMapping(Unchosen, "Desc", "Cost", Unchosen)}

DesktopNext ==
    \/ \E t \in DesktopSources : LoadFile(t)
    \/ LoadFileFails
    \/ \E m \in DesktopMappings : ChooseColumns(m)
    \/ \E t \in DesktopCatalogs : LoadMarinaCatalog(t)
    \/ LoadMarinaCatalogFails
    \/ StartGenerate
    \/ StartExport
    \/ \E w \in DOMAIN workers : GenerateReset(w)
    \/ \E w \in DOMAIN workers : GenerateColumn(w)
    \/ \E w \in DOMAIN workers : GenerateNumeric(w)
    \/ \E w \in DOMAIN workers : ExportCheck(w)
    \/ \E w \in DOMAIN workers : ExportCopyCatalog(w)
    \/ \E w \in DOMAIN workers : ExportCopyMapped(w)
    \/ \E w \in DOMAIN workers : ExportWrite(w)

SpecDesktop == DesktopInit /\ [][DesktopNext]_vars

\* ------------------------------------------------------------------ C11
\* A generate_output thread passing its first statement, and an
\* export_updated_catalog thread passing or failing its test for tables.
MappingRuns ==
    \E w \in DOMAIN workers :
        /\ workers[w].kind = "generate"
        /\ workers[w].pc = "reset"
        /\ workers'[w].pc = "column"

ExportRuns ==
    \E w \in DOMAIN workers :
        /\ workers[w].kind = "export"
        /\ workers[w].pc = "check"
        /\ workers'[w].pc = "copy_catalog"

ExportBlocked ==
    \E w \in DOMAIN workers :
        /\ workers[w].kind = "export"
        /\ workers[w].pc = "check"
        /\ workers'[w].pc = "done"

\* C11: input gating.  The mapping operation runs only with a source loaded
\* and ItemCode mapped, the export only with a mapped table and a catalog, and
\* a blocked action leaves the mapped table and the output as they were.
C11_InputGating ==
    [][/\ MappingRuns => /\ df_source # None
                         /\ mapping["ItemCode"] \notin {NoWidget, Unchosen}
       /\ ExportRuns => df_mapped # None /\ df_catalog # None
       /\ ExportBlocked => df_mapped' = df_mapped /\ out' = out]_vars

\* ------------------------------------------------------------------ C14
\* A generate_output thread between its reset of self.df_mapped and its end.
GenerateInProgress ==
    \E g \in DOMAIN workers :
        /\ workers[g].kind = "generate"
        /\ workers[g].pc \in {"column", "numeric"}

\* C14: an export thread takes its copy of self.df_mapped only while no
\* generate_output run is part-way through writing that table.
C14_ExportCopiesCompletedTable ==
    [][\A w \in DOMAIN workers :
          (workers[w].pc = "copy_mapped" /\ workers'[w].pc = "write")
             => ~GenerateInProgress]_vars

====
